---- MODULE Spec2Model ----
(***************************************************************************)
(* Model of the NASA chat assistant: the ChatBot orchestrator              *)
(* (src/src/nasa_chat/chatbot.py) with its Translator, Simplifier, NASA    *)
(* search client and image captioner.                                      *)
(*                                                                         *)
(* Texts are TLA+ strings, handled character by character where the code   *)
(* does (lower, strip, substring tests, slicing).  Python's None is the    *)
(* empty tuple and a present value x is <<x>>; a language argument that is *)
(* None or "" (both falsy for Python's `or`) is "".  Arabic letters, which *)
(* TLA+ strings cannot hold, are written with the stand-in characters of   *)
(* ArabicChars.                                                            *)
(***************************************************************************)
EXTENDS Integers, Sequences, FiniteSets, TLC

\* ------------------------------------------------------------------ bounds
\* Most records a search returns.
MaxResults == 6
\* Most ask/describe_image calls started in one behaviour of Spec.
MaxCalls == 1
\* Most ask/describe_image calls started in one behaviour of SpecSession.
MaxSessionCalls == 2
\* Most lines of a text given to the simplifier in SpecSimplifier.
MaxLines == 2

\* ----------------------------------------------------------------- strings
None == <<>>
Some(x) == <<x>>

\* Python truthiness of an optional string: None and "" are falsy.
Truthy(o) == o # None /\ o[1] # ""

\* a or b, on optional strings
OrOpt(a, b) == IF Truthy(a) THEN a ELSE b

\* a or b, on strings
OrStr(a, b) == IF a # "" THEN a ELSE b

Upper == <<"A","B","C","D","E","F","G","H","I","J","K","L","M",
           "N","O","P","Q","R","S","T","U","V","W","X","Y","Z">>
Lower == <<"a","b","c","d","e","f","g","h","i","j","k","l","m",
           "n","o","p","q","r","s","t","u","v","w","x","y","z">>

lower_char(c) ==
    IF \E i \in 1..26 : Upper[i] = c
    THEN Lower[CHOOSE i \in 1..26 : Upper[i] = c]
    ELSE c

RECURSIVE lower(_)
\* str.lower()
lower(s) ==
    IF Len(s) = 0 THEN ""
    ELSE IF Len(s) = 1 THEN lower_char(s)
    ELSE lower(SubSeq(s, 1, Len(s) \div 2)) \o lower(SubSeq(s, Len(s) \div 2 + 1, Len(s)))

Whitespace == {" ", "\n", "\t", "\r"}

RECURSIVE lstrip(_)
lstrip(s) == IF s # "" /\ Head(s) \in Whitespace THEN lstrip(Tail(s)) ELSE s

RECURSIVE rstrip(_)
rstrip(s) ==
    IF s # "" /\ SubSeq(s, Len(s), Len(s)) \in Whitespace
    THEN rstrip(SubSeq(s, 1, Len(s) - 1))
    ELSE s

\* str.strip()
strip(s) == rstrip(lstrip(s))

\* `t in s` for strings
Contains(s, t) ==
    \E i \in 1..(Len(s) - Len(t) + 1) : SubSeq(s, i, i + Len(t) - 1) = t

\* any(k in s for k in ks)
ContainsAny(s, ks) == \E i \in 1..Len(ks) : Contains(s, ks[i])

RECURSIVE split(_, _)
\* str.split(sep) for a one-character separator
split(s, sep) ==
    IF ~Contains(s, sep)
    THEN <<s>>
    ELSE LET i == CHOOSE j \in 1..Len(s) :
                      /\ SubSeq(s, j, j) = sep
                      /\ \A k \in 1..(j - 1) : SubSeq(s, k, k) # sep
         IN  <<SubSeq(s, 1, i - 1)>> \o split(SubSeq(s, i + 1, Len(s)), sep)

RECURSIVE join(_, _)
\* sep.join(parts)
join(sep, parts) ==
    IF parts = <<>> THEN ""
    ELSE IF Len(parts) = 1 THEN parts[1]
    ELSE parts[1] \o sep \o join(sep, Tail(parts))

\* s[:n]
Prefix(s, n) == SubSeq(s, 1, IF Len(s) < n THEN Len(s) ELSE n)

Min(a, b) == IF a < b THEN a ELSE b

\* Stand-ins for Arabic letters.
ArabicChars == {"#", "$", "%"}

\* A text with no Arabic letter.
IsEnglish(s) == \A i \in 1..Len(s) : SubSeq(s, i, i) \notin ArabicChars

\* -------------------------------------------------------------- Translator
\* Outputs of the black-box translation backends: a text in the target
\* language.  English stands for every target other than Arabic.
ArabicText == "%$ #"
EnglishText == " Sea of Earth "

BackendText(tgt) == IF tgt = "ar" THEN ArabicText ELSE EnglishText

\* What the remote service answers: requests.post raising, a non-2xx
\* status, a body that is no JSON, JSON that is no object, an object
\* without the translatedText field, an object with it.
RemoteOutcomes ==
    {"network_error", "not_ok", "bad_json", "not_object", "no_field", "translated"}

\* The environment of one translate call: whether from_pretrained succeeds,
\* what the remote service answers.
TranslateEnvs == [load_ok : BOOLEAN, remote : RemoteOutcomes]

Translator__select_model_name(src, tgt) ==
    IF <<src, tgt>> = <<"en", "ar">> THEN "Helsinki-NLP/opus-mt-en-ar"
    ELSE IF <<src, tgt>> = <<"ar", "en">> THEN "Helsinki-NLP/opus-mt-ar-en"
    ELSE "Helsinki-NLP/opus-mt-en-ar"

\* Translator(source_lang, target_lang); available is _TRANSFORMERS_AVAILABLE
Translator__init__(source_lang, target_lang, available, load_ok) ==
    LET src == lower(source_lang)
        tgt == lower(target_lang)
        name == Translator__select_model_name(src, tgt)
        try == src # tgt /\ available
    IN  [source_lang |-> src,
         target_lang |-> tgt,
         model_name  |-> IF try THEN Some(name) ELSE None,
         tokenizer   |-> IF try /\ load_ok THEN Some(name) ELSE None,
         model       |-> IF try /\ load_ok THEN Some(name) ELSE None]

\* One backend invocation, as the call log records it.
BackendCall(backend, model, src, tgt, text) ==
    [backend |-> backend, model |-> model, source |-> src, target |-> tgt, text |-> text]

\* The remote call leaving an exception uncaught.
Translator__translate_remote_uncaught(text, source_lang, target_lang, env) ==
    IF source_lang = target_lang
    THEN [out |-> text, calls |-> <<>>, raised |-> FALSE]
    ELSE [out    |-> IF env.remote = "translated" THEN BackendText(target_lang) ELSE text,
          calls  |-> <<BackendCall("remote", "", source_lang, target_lang, text)>>,
          raised |-> env.remote \in {"network_error", "bad_json", "not_object"}]

\* Returns [out, calls, raised].  Whatever goes wrong inside the try
\* (the request, the JSON decoding, the field access) is caught and the
\* text is returned as it came; so it is on a non-2xx status and when the
\* field is missing.
Translator__translate_remote(text, source_lang, target_lang, env) ==
    IF source_lang = target_lang
    THEN [out |-> text, calls |-> <<>>, raised |-> FALSE]
    ELSE [out    |-> IF env.remote = "translated" THEN BackendText(target_lang) ELSE text,
          calls  |-> <<BackendCall("remote", "", source_lang, target_lang, text)>>,
          raised |-> FALSE]

\* The identity test never taken.
identity_pair_never(src, tgt) == FALSE

\* `src == tgt` of translate (line 74)
identity_pair(src, tgt) == src = tgt

\* translate(text, source_lang, target_lang) on the translator `self`.
\* Returns [self, out, calls, raised]: the translator afterwards, the
\* returned text, the backends invoked in order, whether it raised.
Translator_translate(self, text, source_lang, target_lang, env) ==
    LET src == lower(OrStr(source_lang, self.source_lang))
        tgt == lower(OrStr(target_lang, self.target_lang))
        has(t) == t.model # None /\ t.tokenizer # None
        reload == has(self) /\ <<src, tgt>> # <<self.source_lang, self.target_lang>>
        name == Translator__select_model_name(src, tgt)
        self1 == IF reload
                 THEN [source_lang |-> src,
                       target_lang |-> tgt,
                       model_name  |-> Some(name),
                       tokenizer   |-> IF env.load_ok THEN Some(name) ELSE None,
                       model       |-> IF env.load_ok THEN Some(name) ELSE None]
                 ELSE self
        calls1 == IF reload
                  THEN <<BackendCall("from_pretrained", name, src, tgt, "")>>
                  ELSE <<>>
        remote == Translator__translate_remote(text, src, tgt, env)
    IN  IF identity_pair(src, tgt)
        THEN [self |-> self, out |-> text, calls |-> <<>>, raised |-> FALSE]
        ELSE IF has(self1)
        THEN [self   |-> self1,
              out    |-> BackendText(tgt),
              calls  |-> calls1 \o <<BackendCall("marian", self1.model[1], src, tgt, text)>>,
              raised |-> FALSE]
        ELSE [self   |-> self1,
              out    |-> remote.out,
              calls  |-> calls1 \o remote.calls,
              raised |-> remote.raised]

\* -------------------------------------------------------------- Simplifier
TruncLen == 160

glossary ==
    << <<"satellite", "a machine in space that watches or communicates">>,
       <<"orbit", "the path an object takes around a planet">>,
       <<"spectral", "about colors/wavelengths of light">>,
       <<"radiance", "brightness of light measured">>,
       <<"precipitation", "rain or snow">>,
       <<"albedo", "how much light a surface reflects">>,
       <<"currents", "moving water in the ocean">>,
       <<"chlorophyll", "green stuff in tiny plants (phytoplankton) in the ocean">> >>

\* [f(x) for x in xs]
MapSeq(xs, F(_)) == [i \in 1..Len(xs) |-> F(xs[i])]

\* The fallback matching the glossary terms against the text as written.
Simplifier__fallback_cased(text, aud) ==
    LET terms == SelectSeq(glossary, LAMBDA e : Contains(text, e[1]))
        defs == MapSeq(terms, LAMBDA e : "- " \o e[1] \o ": " \o e[2])
        parts == SelectSeq(MapSeq(split(text, "\n"), strip), LAMBDA p : p # "")
        bullets == MapSeq(parts, LAMBDA p :
                       IF Len(p) > TruncLen
                       THEN "- " \o Prefix(p, TruncLen) \o "..."
                       ELSE "- " \o p)
        analogy ==
            IF aud = "child"
            THEN "- Imagine it like a big camera in space watching Earth to help us understand it."
            ELSE "- Analogy: spaceborne cameras monitor Earth much like weather stations monitor a city."
    IN  join("\n", <<"- We explain this topic in simple words.">> \o defs \o bullets \o <<analogy>>)

Simplifier__fallback(text, aud) ==
    LET tl == lower(text)
        terms == SelectSeq(glossary, LAMBDA e : Contains(tl, e[1]))
        defs == MapSeq(terms, LAMBDA e : "- " \o e[1] \o ": " \o e[2])
        parts == SelectSeq(MapSeq(split(text, "\n"), strip), LAMBDA p : p # "")
        bullets == MapSeq(parts, LAMBDA p :
                       IF Len(p) > TruncLen
                       THEN "- " \o Prefix(p, TruncLen) \o "..."
                       ELSE "- " \o p)
        analogy ==
            IF aud = "child"
            THEN "- Imagine it like a big camera in space watching Earth to help us understand it."
            ELSE "- Analogy: spaceborne cameras monitor Earth much like weather stations monitor a city."
    IN  join("\n", <<"- We explain this topic in simple words.">> \o defs \o bullets \o <<analogy>>)

\* Simplifier(model_name)
Simplifier__init__(model_name, available, load_ok) ==
    [pipe |-> IF available /\ load_ok THEN Some(model_name) ELSE None]

\* Output of the black-box FLAN-T5 pipeline, by audience.
FlanText(aud) ==
    IF aud = "child"
    THEN "- Space cameras watch our planet."
    ELSE "- Satellites observe the planet."

\* Returns [out, calls]: the text and the simplifier invocations logged.
Simplifier_simplify(self, text, aud) ==
    LET out == IF self.pipe # None THEN FlanText(aud)
               ELSE Simplifier__fallback(text, aud)
    IN  [out |-> out, calls |-> <<[text |-> text, audience |-> aud, out |-> out]>>]

\* ------------------------------------------------------- NASA search client
TopK == 5

Digits == <<"1", "2", "3", "4", "5", "6", "7", "8", "9">>

\* A record of search_images: the fields the orchestrator reads.
SearchRecord(i, has_title, has_description) ==
    [title       |-> IF has_title THEN Some("Title " \o Digits[i]) ELSE None,
     description |-> IF has_description THEN Some("Description " \o Digits[i]) ELSE None,
     nasa_id     |-> Some("id" \o Digits[i]),
     preview_url |-> Some("https://images/" \o Digits[i])]

\* One record with neither title nor description.
BareResults == <<SearchRecord(1, FALSE, FALSE)>>

\* More records than the aggregation window takes: one with neither title
\* nor description, one with a title only, the others with both.
ManyResults ==
    [i \in 1..MaxResults |-> SearchRecord(i, i # 1, i > 2)]

\* What one search_images call can do: raise (network error, HTTP error
\* status, a body that is no JSON) or return the provider's records.
SearchOutcomes ==
    {[raised |-> TRUE, results |-> <<>>]}
    \cup {[raised |-> FALSE, results |-> r] :
             r \in {<<>>, BareResults, ManyResults}}

\* ------------------------------------------------------------ ChatBot state
VARIABLES
    language,                \* ChatBot.language
    audience,                \* ChatBot.audience
    captioner,               \* ChatBot.captioner: None when vision is off
    simplifier,              \* ChatBot.simplifier
    translator,              \* ChatBot.translator
    history,                 \* ChatBot.history
    transformers_available,  \* _TRANSFORMERS_AVAILABLE of the provider modules
    pc,                      \* where the call in progress stands
    call,                    \* the locals of the call in progress
    obs,                     \* what the current (or last) call did, as observed
    returned,                \* the (input, response) pairs returned since the last reset
    ncalls                   \* calls started so far

vars == <<language, audience, captioner, simplifier, translator, history,
          transformers_available, pc, call, obs, returned, ncalls>>

config == <<language, audience, captioner, simplifier, transformers_available>>

NoCall ==
    [input |-> "", english_query |-> "", caption |-> "", queries |-> <<>>,
     qi |-> 0, results |-> <<>>]

NoObs ==
    [op |-> "none", input |-> "", searched |-> <<>>, any_failed |-> FALSE, all_failed |-> TRUE,
     found |-> FALSE, results |-> <<>>,
     captions |-> 0, simplified |-> <<>>, translated |-> <<>>, raised |-> FALSE,
     done |-> FALSE, prior |-> <<>>]

\* ChatBot(language, use_vision, simplifier_model, audience)
ChatBot__init__(lang, use_vision, simplifier_model, aud, available, load_ok) ==
    /\ language = lower(lang)
    /\ simplifier = Simplifier__init__(simplifier_model, available, load_ok)
    /\ audience = (IF aud \in {"child", "general"} THEN aud ELSE "child")
    /\ translator = Translator__init__("en", lower(lang), available, load_ok)
    /\ captioner = (IF use_vision THEN Some("ImageCaptioner") ELSE None)
    /\ history = <<>>

\* ------------------------------------------------------------- ChatBot.ask
\* The expansions with two of the fixed candidates in the other order.
ask_expansions_swapped(english_query) ==
    LET ql == lower(english_query)
    IN  (IF ~Contains(ql, "earth") THEN <<english_query \o " earth">> ELSE <<>>)
        \o (IF ~Contains(ql, "ocean") /\ ~Contains(ql, "sea")
            THEN <<"sea", "ocean", "earth oceans", "ocean currents">>
            ELSE <<>>)

\* The second-pass expansions of ask, in order.
ask_expansions(english_query) ==
    LET ql == lower(english_query)
    IN  (IF ~Contains(ql, "earth") THEN <<english_query \o " earth">> ELSE <<>>)
        \o (IF ~Contains(ql, "ocean") /\ ~Contains(ql, "sea")
            THEN <<"ocean", "sea", "earth oceans", "ocean currents">>
            ELSE <<>>)

ask_fallback_text ==
    "Explain Earth's oceans from a NASA perspective: satellites observe sea surface temperature, sea level, "
    \o "currents, color (chlorophyll), and storms. Why oceans matter and how space helps us monitor them."

ask_no_results_technical(query) == "No NASA image results found for: " \o query

\* The window taking one record too many.
select_top_one_more(results) == SubSeq(results, 1, Min(TopK + 1, Len(results)))

\* results[:k], k = min(5, len(results))
select_top(results) == SubSeq(results, 1, Min(TopK, Len(results)))

\* The descriptions gathered from the selected records.
descriptions_of(selected) ==
    LET d(it) == OrOpt(it.description, OrOpt(it.title, Some("")))
    IN  MapSeq(SelectSeq(selected, LAMBDA it : d(it)[1] # ""), LAMBDA it : d(it)[1])

ask_technical_context(english_query, selected) ==
    LET descriptions == descriptions_of(selected)
    IN  IF descriptions # <<>>
        THEN "NASA results overview for query '" \o english_query \o "':\n\n"
             \o join("\n\n", descriptions)
        ELSE OrOpt(selected[1].description, OrOpt(selected[1].title, Some("NASA result")))[1]

\* The citations leaving out the records that have no title.
format_sources_titled(selected) ==
    MapSeq(SelectSeq(selected, LAMBDA it : it.title # None), LAMBDA it :
        [title |-> it.title, preview_url |-> it.preview_url, nasa_id |-> it.nasa_id])

format_sources(selected) ==
    MapSeq(selected, LAMBDA it :
        [title |-> it.title, preview_url |-> it.preview_url, nasa_id |-> it.nasa_id])

\* The entry put first instead of last.
ChatBot__remember_first(h, user_input, response) ==
    <<[input |-> user_input, response |-> response]>> \o h

ChatBot__remember(h, user_input, response) ==
    Append(h, [input |-> user_input, response |-> response])

\* The environments of a translate call the orchestrator makes; one
\* suffices where no translation is made.
EnvsIf(translates) ==
    IF translates THEN TranslateEnvs
    ELSE {[load_ok |-> TRUE, remote |-> "translated"]}

\* simple: simple_en translated when the target is Arabic.
\* Returns [self, out, calls] as Translator_translate does.
translate_simple(simple_en, env) ==
    IF language = "ar"
    THEN Translator_translate(translator, simple_en, "en", "ar", env)
    ELSE [self |-> translator, out |-> simple_en, calls |-> <<>>, raised |-> FALSE]

\* The tail every outcome of ask and describe_image shares: simplify in
\* English, translate when the target is Arabic, assemble the response,
\* remember it, return it.
respond(start, op, arg, user_input, technical, simplify_text, sources) ==
    \E s \in {Simplifier_simplify(simplifier, simplify_text, audience)} :
    \E env \in EnvsIf(language = "ar") :
    \E t \in {translate_simple(s.out, env)} :
    \E resp \in {[technical |-> technical, simple |-> t.out, sources |-> sources]} :
        /\ translator' = t.self
        /\ history' = ChatBot__remember(history, user_input, resp)
        /\ returned' = Append(returned, [op |-> op, input |-> arg, response |-> resp])
        /\ obs' = [start EXCEPT
                     !.simplified = @ \o s.calls,
                     !.translated = @ \o (IF language = "ar"
                                          THEN <<[text |-> s.out, out |-> t.out,
                                                  calls |-> t.calls]>>
                                          ELSE <<>>),
                     !.done = TRUE]

\* What the user may type.
Queries == {" Earth ", "sea level", "#$%"}

\* ask, lines 49-53: the query is put into English.
ChatBot_ask(query, env) ==
    /\ pc = "idle"
    /\ \E t \in {IF language # "en"
                 THEN Translator_translate(translator, query, language, "en", env)
                 ELSE [self |-> translator, out |-> query, calls |-> <<>>,
                       raised |-> FALSE]} :
           /\ translator' = t.self
           /\ call' = [NoCall EXCEPT !.input = query, !.english_query = strip(t.out)]
           /\ obs' = [NoObs EXCEPT
                        !.op = "ask", !.input = query, !.prior = history,
                        !.translated = IF language # "en"
                                       THEN <<[text |-> query, out |-> t.out, calls |-> t.calls]>>
                                       ELSE <<>>]
    /\ pc' = "ask_search"
    /\ ncalls' = ncalls + 1
    /\ UNCHANGED <<config, history, returned>>

\* ask, lines 55-63: the initial search, outside any try.
ask_search(out) ==
    /\ pc = "ask_search"
    /\ IF out.raised
       THEN /\ pc' = "idle"
            /\ call' = NoCall
            /\ obs' = [obs EXCEPT !.searched = Append(@, call.english_query),
                                  !.any_failed = TRUE, !.raised = TRUE]
       ELSE LET expansions == ask_expansions(call.english_query)
            IN  /\ call' = [call EXCEPT
                              !.results = out.results,
                              !.queries = IF out.results = <<>> THEN expansions ELSE <<>>,
                              !.qi = 1]
                /\ obs' = [obs EXCEPT !.searched = Append(@, call.english_query),
                                      !.all_failed = FALSE,
                                      !.found = (out.results # <<>>),
                                      !.results = out.results]
                /\ pc' = IF out.results # <<>> \/ expansions = <<>>
                         THEN "ask_respond" ELSE "ask_expand"
    /\ UNCHANGED <<config, translator, history, returned, ncalls>>

\* ask, lines 64-71: one turn of the expansion loop.
ask_expand(out) ==
    /\ pc = "ask_expand"
    /\ LET ex == call.queries[call.qi]
           hit == ~out.raised /\ out.results # <<>>
           last == call.qi = Len(call.queries)
       IN  /\ call' = [call EXCEPT
                         !.results = IF out.raised THEN @ ELSE out.results,
                         !.english_query = IF hit THEN ex ELSE @,
                         !.qi = @ + 1]
           /\ obs' = [obs EXCEPT !.searched = Append(@, ex),
                                 !.any_failed = @ \/ out.raised,
                                 !.all_failed = @ /\ out.raised,
                                 !.found = @ \/ hit,
                                 !.results = IF hit THEN out.results ELSE @]
           /\ pc' = IF hit \/ last THEN "ask_respond" ELSE "ask_expand"
    /\ UNCHANGED <<config, translator, history, returned, ncalls>>

\* ask, lines 73-115: the response.
ask_respond ==
    /\ pc = "ask_respond"
    /\ IF call.results = <<>>
       THEN respond(obs, "ask", call.input, call.input,
                    ask_no_results_technical(call.input), ask_fallback_text, <<>>)
       ELSE \E selected \in {select_top(call.results)} :
            \E technical_context \in {ask_technical_context(call.english_query, selected)} :
                respond(obs, "ask", call.input, call.input,
                        technical_context, technical_context, format_sources(selected))
    /\ pc' = "idle"
    /\ call' = NoCall
    /\ UNCHANGED <<config, ncalls>>

\* --------------------------------------------------- ChatBot.describe_image
vision_disabled_technical == "Vision module is disabled."

\* The candidate queries of describe_image, in order (lines 138-159).
describe_queries(caption) ==
    LET cq == lower(caption)
        hub == IF Contains(" " \o cq \o " ", " hub ")
               THEN <<"hubble", "hubble telescope">> ELSE <<>>
        solar == IF ContainsAny(cq, <<"sun", "solar", "corona", "sunspot", "flare">>)
                 THEN <<"sun", "solar", "SDO", "SOHO", "solar dynamics observatory",
                        "parker solar probe", "solar flare", "sunspots",
                        "coronal mass ejection">>
                 ELSE <<>>
        queries == <<caption>> \o hub \o solar
    IN  IF Len(queries) # 1 THEN queries
        ELSE IF ContainsAny(cq, <<"cloud", "atmosphere">>)
        THEN queries \o <<"earth clouds", "atmosphere earth from space", "EPIC Earth">>
        ELSE IF ContainsAny(cq, <<"ocean", "sea">>)
        THEN queries \o <<"earth oceans", "ocean currents satellite", "sea surface temperature">>
        ELSE IF ContainsAny(cq, <<"forest", "vegetation", "green">>)
        THEN queries \o <<"earth vegetation", "NDVI", "forest earth from space">>
        ELSE queries \o <<"earth from space", "satellite earth image">>

describe_no_results_technical(caption) ==
    "Image caption: " \o caption \o ". No related NASA results found after expansions."

\* The fallback explanation tailored to the caption theme (lines 175-185).
describe_fallback(caption) ==
    IF ContainsAny(lower(caption), <<"sun", "solar">>)
    THEN "NASA studies the Sun using space missions like SDO and SOHO. "
         \o "They observe sunspots, solar flares, and the corona to understand space weather, "
         \o "which can affect satellites and power grids on Earth."
    ELSE "Satellites observe Earth to measure clouds, oceans, forests, and atmosphere. "
         \o "These observations help scientists track weather, climate, and environmental changes."

describe_technical_context(caption, selected) ==
    LET descriptions == descriptions_of(selected)
    IN  IF descriptions # <<>>
        THEN "Image caption: " \o caption \o "\n\nNASA context from top results:\n\n"
             \o join("\n\n", descriptions)
        ELSE "Image caption: " \o caption \o "\n\nNASA context: "
             \o OrOpt(selected[1].title, Some("NASA result"))[1]

\* The input describe_image remembers for an image path.
image_input(image_path) == "[image]" \o image_path

ImagePaths == {"/tmp/a.png"}

\* What the captioner may say of an image (the model's caption, or the
\* heuristic's), before strip.
Captions ==
    {"a hub in space", "the corona ", "Sun flare",
     "A photo likely showing ocean, water, earth",
     "A photo likely showing clouds, atmosphere, earth",
     "A photo likely showing forest, vegetation, earth",
     "A photo likely showing mars, red planet"}

\* caption() returns a text or raises (the file is no image).
CaptionOutcomes ==
    {[raised |-> TRUE, text |-> ""]} \cup {[raised |-> FALSE, text |-> c] : c \in Captions}

\* The vision test always passing.
has_captioner_always == TRUE

\* `self.captioner` as a condition (line 123).
has_captioner == captioner # None

\* describe_image with vision off (lines 123-133).
ChatBot_describe_image_disabled(image_path) ==
    /\ pc = "idle"
    /\ ~has_captioner
    /\ respond([NoObs EXCEPT !.op = "describe_image", !.input = image_path,
                             !.prior = history],
               "describe_image", image_path, image_input(image_path),
               vision_disabled_technical, vision_disabled_technical, <<>>)
    /\ ncalls' = ncalls + 1
    /\ UNCHANGED <<config, pc, call>>

\* describe_image with vision on, lines 135-159: caption, build the queries.
ChatBot_describe_image(image_path, cap) ==
    /\ pc = "idle"
    /\ has_captioner
    /\ LET start == [NoObs EXCEPT !.op = "describe_image", !.input = image_path,
                                  !.prior = history, !.captions = 1]
           caption == strip(cap.text)
       IN  IF cap.raised
           THEN /\ obs' = [start EXCEPT !.raised = TRUE]
                /\ UNCHANGED <<pc, call>>
           ELSE /\ obs' = start
                /\ call' = [NoCall EXCEPT !.input = image_path, !.caption = caption,
                                          !.queries = describe_queries(caption), !.qi = 1]
                /\ pc' = "img_search"
    /\ ncalls' = ncalls + 1
    /\ UNCHANGED <<config, translator, history, returned>>

\* describe_image, lines 161-170: one turn of the search loop.
describe_search(out) ==
    /\ pc = "img_search"
    /\ LET q == call.queries[call.qi]
           r == IF out.raised THEN <<>> ELSE out.results
           last == call.qi = Len(call.queries)
       IN  /\ call' = [call EXCEPT !.results = r, !.qi = @ + 1]
           /\ obs' = [obs EXCEPT !.searched = Append(@, q),
                                 !.any_failed = @ \/ out.raised,
                                 !.all_failed = @ /\ out.raised,
                                 !.found = @ \/ (~out.raised /\ out.results # <<>>),
                                 !.results = IF ~out.raised /\ out.results # <<>>
                                             THEN out.results ELSE @]
           /\ pc' = IF r # <<>> \/ last THEN "img_respond" ELSE "img_search"
    /\ UNCHANGED <<config, translator, history, returned, ncalls>>

\* describe_image, lines 172-222: the response.
describe_respond ==
    /\ pc = "img_respond"
    /\ IF call.results = <<>>
       THEN \E technical \in {describe_no_results_technical(call.caption)} :
                respond(obs, "describe_image", call.input, image_input(call.input), technical,
                        technical \o "\n\n" \o describe_fallback(call.caption), <<>>)
       ELSE \E selected \in {select_top(call.results)} :
            \E technical_context \in {describe_technical_context(call.caption, selected)} :
                respond(obs, "describe_image", call.input, image_input(call.input),
                        technical_context, technical_context, format_sources(selected))
    /\ pc' = "idle"
    /\ call' = NoCall
    /\ UNCHANGED <<config, ncalls>>

\* ------------------------------------------------------------ ChatBot.reset
\* A reset that also puts the audience back to its default.
ChatBot_reset_defaults ==
    /\ pc = "idle"
    /\ history' = <<>>
    /\ audience' = "child"
    /\ returned' = <<>>
    /\ obs' = [NoObs EXCEPT !.op = "reset", !.prior = history, !.done = TRUE]
    /\ UNCHANGED <<language, captioner, simplifier, transformers_available,
                   translator, pc, call, ncalls>>

ChatBot_reset ==
    /\ pc = "idle"
    /\ history' = <<>>
    /\ returned' = <<>>
    /\ obs' = [NoObs EXCEPT !.op = "reset", !.prior = history, !.done = TRUE]
    /\ UNCHANGED <<config, translator, pc, call, ncalls>>

\* ------------------------------------------------------------ specification
Languages == {"ar", "en"}
SimplifierModels == {"google/flan-t5-base"}

\* The orchestrator as constructed, over the given settings.  The
\* providers' models load when the transformers package is available.
InitOver(langs, visions, auds, availables) ==
    /\ transformers_available \in availables
    /\ \E lang \in langs, use_vision \in visions, aud \in auds, m \in SimplifierModels :
          ChatBot__init__(lang, use_vision, m, aud, transformers_available, TRUE)
    /\ pc = "idle"
    /\ call = NoCall
    /\ obs = NoObs
    /\ returned = <<>>
    /\ ncalls = 0

Init == InitOver(Languages, BOOLEAN, {"general"}, BOOLEAN)

\* The steps of the program over the given inputs and environment, with
\* at most `limit` calls started.
NextOver(queries, paths, captions, outcomes, limit) ==
    \/ \E q \in queries, env \in EnvsIf(language # "en") :
          ncalls < limit /\ ChatBot_ask(q, env)
    \/ \E out \in outcomes : ask_search(out)
    \/ \E out \in outcomes : ask_expand(out)
    \/ ask_respond
    \/ \E p \in paths : ncalls < limit /\ ChatBot_describe_image_disabled(p)
    \/ \E p \in paths, cap \in captions : ncalls < limit /\ ChatBot_describe_image(p, cap)
    \/ \E out \in outcomes : describe_search(out)
    \/ describe_respond
    \/ ChatBot_reset

Next == NextOver(Queries, ImagePaths, CaptionOutcomes, SearchOutcomes, MaxCalls)

Spec == Init /\ [][Next]_vars

\* -------------------------------------------------- a session of a few calls
SessionQueries == {"sea level"}
SessionCaptions ==
    {[raised |-> TRUE, text |-> ""], [raised |-> FALSE, text |-> "a hub in space"]}
SessionOutcomes ==
    {[raised |-> TRUE, results |-> <<>>],
     [raised |-> FALSE, results |-> <<>>],
     [raised |-> FALSE, results |-> BareResults]}

InitSession == InitOver(Languages, BOOLEAN, {"child", "general"}, {FALSE})

NextSession ==
    NextOver(SessionQueries, ImagePaths, SessionCaptions, SessionOutcomes, MaxSessionCalls)

SpecSession == InitSession /\ [][NextSession]_vars

\* ------------------------------------------ describe_image, short captions
\* Captions a captioning model may give that are as short as a search
\* term, and one raising.
ShortCaptions ==
    {[raised |-> TRUE, text |-> ""],
     [raised |-> FALSE, text |-> "sun"],
     [raised |-> FALSE, text |-> "earth oceans "],
     [raised |-> FALSE, text |-> "a hub in space"]}

InitDescribe == InitOver(Languages, {TRUE}, {"general"}, {FALSE})

NextDescribe ==
    \/ \E p \in ImagePaths, cap \in ShortCaptions :
          ncalls < MaxCalls /\ ChatBot_describe_image(p, cap)
    \/ \E out \in SessionOutcomes : describe_search(out)
    \/ describe_respond

SpecDescribe == InitDescribe /\ [][NextDescribe]_vars

\* ------------------------------------------------- a Translator on its own
\* The languages a caller may name; "" stands for an argument left out.
LangArgs == {"", "en", "AR", "fr"}
\* The languages a Translator is constructed with.
InitLangs == {"en", "ar", "fr"}
TranslateTexts == {"sea level", "#$%"}

\* Translator(source_lang, target_lang) as constructed; the orchestrator's
\* own fields stay at rest.
InitTranslator ==
    /\ transformers_available \in BOOLEAN
    /\ \E s \in InitLangs, t \in InitLangs, load_ok \in BOOLEAN :
          translator = Translator__init__(s, t, transformers_available, load_ok)
    /\ language = "en"
    /\ audience = "child"
    /\ captioner = None
    /\ simplifier = Simplifier__init__("google/flan-t5-base", transformers_available, TRUE)
    /\ history = <<>>
    /\ pc = "idle"
    /\ call = NoCall
    /\ obs = NoObs
    /\ returned = <<>>
    /\ ncalls = 0

\* One translate(text, source_lang, target_lang) call.
Translator_call(text, source_lang, target_lang, env) ==
    \E r \in {Translator_translate(translator, text, source_lang, target_lang, env)} :
        /\ translator' = r.self
        /\ obs' = [op |-> "translate", text |-> text, source_lang |-> source_lang,
                   target_lang |-> target_lang, before |-> translator,
                   remote |-> IF \E i \in 1..Len(r.calls) : r.calls[i].backend = "remote"
                              THEN env.remote ELSE "not_called",
                   out |-> r.out, calls |-> r.calls,
                   raised |-> r.raised]
        /\ UNCHANGED <<config, history, pc, call, returned, ncalls>>

NextTranslator ==
    \E text \in TranslateTexts, s \in LangArgs, t \in LangArgs, env \in TranslateEnvs :
        Translator_call(text, s, t, env)

SpecTranslator == InitTranslator /\ [][NextTranslator]_vars

\* ------------------------------------------------- a Simplifier on its own
Line40 == "0123456789 abcdefghi 0123456789 ABCDEFGH"
\* A line of exactly 160 characters.
Line160 == Line40 \o Line40 \o Line40 \o Line40

\* The lines a text is made of: blank ones, short ones with glossary
\* terms in either case, one of exactly TruncLen characters, a longer one
\* that names a glossary term past the cut.
TextLines ==
    {"", "  ", "ocean currents and chlorophyll levels", " Satellite ORBIT ",
     Line160, Line160 \o "1 albedo"}

\* The texts of at most n lines.
TextsOf(n) == UNION {[1..k -> TextLines] : k \in 0..n}

Audiences == {"child", "general"}

\* Simplifier(model_name) as constructed, about to be given a text and an
\* audience; the orchestrator's own fields stay at rest.
InitSimplifier ==
    /\ transformers_available \in BOOLEAN
    /\ simplifier = Simplifier__init__("google/flan-t5-base", transformers_available, TRUE)
    /\ translator = Translator__init__("en", "en", transformers_available, TRUE)
    /\ language = "en"
    /\ audience = "child"
    /\ captioner = None
    /\ history = <<>>
    /\ pc = "simplify"
    /\ \E lines \in TextsOf(MaxLines), aud \in Audiences :
          call = [lines |-> lines, audience |-> aud]
    /\ obs = NoObs
    /\ returned = <<>>
    /\ ncalls = 0

\* The simplify(text, audience) call, the text being the given lines.
Simplifier_call ==
    /\ pc = "simplify"
    /\ \E text \in {join("\n", call.lines)} :
       \E r \in {Simplifier_simplify(simplifier, text, call.audience)} :
           obs' = [op |-> "simplify", lines |-> call.lines, text |-> text,
                   audience |-> call.audience, out |-> r.out]
    /\ pc' = "idle"
    /\ UNCHANGED <<config, translator, history, call, returned, ncalls>>

NextSimplifier == Simplifier_call

SpecSimplifier == InitSimplifier /\ [][NextSimplifier]_vars

\* ---------------------------------------------------- the UI's session
\* The options of the sidebar's "Simplifier model" box.
AppSimplifierModels == {"google/flan-t5-small", "google/flan-t5-base"}

\* A session that has no orchestrator yet ("bot" not in session_state);
\* the orchestrator's fields hold nothing.
InitApp ==
    /\ transformers_available \in BOOLEAN
    /\ pc = "no_bot"
    /\ language = ""
    /\ audience = ""
    /\ captioner = None
    /\ simplifier = [pipe |-> None]
    /\ translator = Translator__init__("en", "en", FALSE, FALSE)
    /\ history = <<>>
    /\ call = NoCall
    /\ obs = NoObs
    /\ returned = <<>>
    /\ ncalls = 0

\* _ensure_bot(lang, use_vision, api_key, audience, model_name): build the
\* orchestrator when the session has none, build it anew when `changed`,
\* else keep it.
ensure_bot(lang, use_vision, aud, model_name) ==
    \E changed \in {\/ language # lang
                    \/ Truthy(captioner) # use_vision
                    \/ audience # aud} :
    \E build \in {pc = "no_bot" \/ changed} :
        /\ pc \in {"no_bot", "idle"}
        /\ IF build
           THEN /\ language' = lower(lang)
                /\ simplifier' = Simplifier__init__(model_name, transformers_available, TRUE)
                /\ audience' = (IF aud \in {"child", "general"} THEN aud ELSE "child")
                /\ translator' = Translator__init__("en", lower(lang),
                                                    transformers_available, TRUE)
                /\ captioner' = (IF use_vision THEN Some("ImageCaptioner") ELSE None)
                /\ history' = <<>>
                /\ returned' = <<>>
           ELSE UNCHANGED <<language, simplifier, audience, translator, captioner,
                            history, returned>>
        /\ pc' = "idle"
        /\ obs' = [op |-> "ensure_bot", lang |-> lang, use_vision |-> use_vision,
                   audience |-> aud, model_name |-> model_name, built |-> build]
        /\ UNCHANGED <<transformers_available, call, ncalls>>

\* One run of the page: the settings of the sidebar are applied, or the
\* "Clear chat" button resets the orchestrator.
NextApp ==
    \/ \E lang \in Languages, use_vision \in BOOLEAN, aud \in Audiences,
          model_name \in AppSimplifierModels :
           ensure_bot(lang, use_vision, aud, model_name)
    \/ ChatBot_reset

SpecApp == InitApp /\ [][NextApp]_vars

\* ------------------------------------------------------------------ claims
\* The last call was an ask or a describe_image and it has returned.
CallReturned == obs.done /\ obs.op \in {"ask", "describe_image"}

\* The response the last call returned.
LastResponse == returned[Len(returned)].response

\* s ends with t
EndsWith(s, t) == Len(t) <= Len(s) /\ SubSeq(s, Len(s) - Len(t) + 1, Len(s)) = t

\* C1: a search call that fails, the initial query included, counts as an
\* empty result: the call does not raise to its caller, and when every
\* search of the call failed it returns the 'no results' response.
C1_SearchFailureIsEmptyResult ==
    /\ obs.any_failed => ~obs.raised
    /\ (CallReturned /\ obs.searched # <<>> /\ obs.all_failed)
           => LastResponse.sources = <<>>

\* C2: a returned response has empty sources exactly when no search of the
\* call returned records, and a response with empty sources still carries
\* non-empty technical and simple text.
C2_SourcesEmptyIffNoResults ==
    CallReturned =>
        /\ (LastResponse.sources = <<>>) <=> ~obs.found
        /\ LastResponse.sources = <<>> =>
               LastResponse.technical # "" /\ LastResponse.simple # ""

\* An ask whose searches all came back empty or failed returned the
\* fallback with no sources.
C2_Witness ==
    /\ CallReturned /\ obs.op = "ask"
    /\ Len(obs.searched) > 1 /\ ~obs.found /\ obs.any_failed
    /\ LastResponse.sources = <<>>

\* The expansion candidates of ask as the claim lists them.
C3_Candidates(english_query) ==
    (IF Contains(lower(english_query), "earth") THEN <<>>
     ELSE <<english_query \o " earth">>)
    \o (IF Contains(lower(english_query), "ocean") \/ Contains(lower(english_query), "sea")
        THEN <<>>
        ELSE <<"ocean", "sea", "earth oceans", "ocean currents">>)

\* C3: ask searches the English query and then, only while nothing was
\* found, the expansion candidates in their fixed order; the first
\* candidate with records becomes english_query, its records make the
\* sources, and nothing is searched after it.
C3_ExpansionOrder ==
    (obs.op = "ask" /\ obs.searched # <<>>) =>
        LET tried == <<obs.searched[1]>> \o C3_Candidates(obs.searched[1])
            n == Len(obs.searched)
        IN  /\ n <= Len(tried)
            /\ obs.searched = SubSeq(tried, 1, n)
            /\ obs.found => pc \in {"ask_respond", "idle"}
            /\ (pc = "ask_respond" /\ obs.found) =>
                   /\ call.english_query = obs.searched[n]
                   /\ call.results = obs.results
            /\ (pc = "ask_respond" /\ ~obs.found) => n = Len(tried)
            /\ (CallReturned /\ obs.found) =>
                   /\ LastResponse.sources # <<>>
                   /\ \A i \in 1..Len(LastResponse.sources) :
                          LastResponse.sources[i].nasa_id = obs.results[i].nasa_id

\* Only the third expansion candidate had records, and ask returned them.
C3_Witness ==
    /\ CallReturned /\ obs.op = "ask" /\ obs.found
    /\ obs.searched = <<"Earth", "ocean", "sea", "earth oceans">>
    /\ LastResponse.sources # <<>>

\* The text a record gives to the technical block: its description, else
\* its title, else nothing.
C4_TextOf(it) ==
    IF Truthy(it.description) THEN <<it.description[1]>>
    ELSE IF Truthy(it.title) THEN <<it.title[1]>>
    ELSE <<>>

RECURSIVE C4_Texts(_)
C4_Texts(records) ==
    IF records = <<>> THEN <<>> ELSE C4_TextOf(records[1]) \o C4_Texts(Tail(records))

\* C4: when a search returned N >= 1 records the sources are the first
\* min(5, N) of them, in order, one entry each; a record with neither
\* description nor title adds nothing to the technical block and is cited
\* with an absent title, and the call does not fail.
C4_SourcesAreTopFive ==
    /\ obs.found => ~obs.raised
    /\ (CallReturned /\ obs.found) =>
           LET n == Len(obs.results)
               k == IF n < 5 THEN n ELSE 5
               src == LastResponse.sources
               texts == C4_Texts(SubSeq(obs.results, 1, k))
           IN  /\ Len(src) = k
               /\ \A i \in 1..k :
                      /\ src[i].nasa_id = obs.results[i].nasa_id
                      /\ src[i].title = obs.results[i].title
                      /\ src[i].preview_url = obs.results[i].preview_url
               /\ texts # <<>> => EndsWith(LastResponse.technical, join("\n\n", texts))
               /\ texts = <<>> => EndsWith(LastResponse.technical, "NASA result")

\* More than five records came back, the first with neither title nor
\* description: five are cited, the first with no title.
C4_Witness ==
    /\ CallReturned /\ obs.found
    /\ Len(obs.results) > 5
    /\ Len(LastResponse.sources) = 5
    /\ LastResponse.sources[1].title = None
    /\ obs.results[1].description = None

\* C5: the technical field of every response is English and never holds
\* the user's untranslated non-English input; only simple goes through
\* translation.  Stated for an Arabic target whose query the translator put
\* into English.
C5_TechnicalIsEnglish ==
    (CallReturned /\ obs.op = "ask" /\ language = "ar"
        /\ IsEnglish(obs.translated[1].out)) =>
        /\ IsEnglish(LastResponse.technical)
        /\ \A i \in 2..Len(obs.translated) :
               /\ obs.translated[i].text = obs.simplified[1].out
               /\ obs.translated[i].out = LastResponse.simple

\* C8: with vision off describe_image captions nothing and searches
\* nothing; it returns the fixed message with no sources, simple being the
\* message simplified and (for Arabic) translated, and remembers it.
C8_VisionDisabledIsTerminal ==
    (obs.op = "describe_image" /\ captioner = None) =>
        /\ pc = "idle" /\ obs.done /\ ~obs.raised
        /\ obs.captions = 0
        /\ obs.searched = <<>>
        /\ LastResponse.technical = "Vision module is disabled."
        /\ LastResponse.sources = <<>>
        /\ Len(obs.simplified) = 1
        /\ obs.simplified[1].text = "Vision module is disabled."
        /\ obs.simplified[1].audience = audience
        /\ IF language = "ar"
           THEN /\ Len(obs.translated) = 1
                /\ obs.translated[1].text = obs.simplified[1].out
                /\ LastResponse.simple = obs.translated[1].out
           ELSE /\ obs.translated = <<>>
                /\ LastResponse.simple = obs.simplified[1].out
        /\ history = Append(obs.prior,
               [input |-> "[image]" \o obs.input, response |-> LastResponse])

\* describe_image returned with vision off and Arabic as the target.
C8_Witness ==
    /\ obs.op = "describe_image" /\ captioner = None /\ obs.done
    /\ language = "ar"
    /\ LastResponse.simple = ArabicText
    /\ Len(history) = 1

\* The input an entry of history holds for a returned call, as the claim
\* has it: the call's own input.
C6_HistoryOfInputs ==
    [i \in 1..Len(returned) |->
        [input |-> returned[i].input, response |-> returned[i].response]]

\* C6 as stated: history is, in call order, one entry per call returned
\* since the last reset, pairing the call's input with its response, and
\* a call that raises leaves history as it was.
C6_HistoryPairsInputs ==
    /\ history = C6_HistoryOfInputs
    /\ (obs.op \in {"ask", "describe_image"} /\ obs.raised) => history = obs.prior

\* C6 as amended: the same, the input remembered for a describe_image call
\* being the image path prefixed with "[image]".
C6_HistoryPairsRememberedInputs ==
    /\ history =
           [i \in 1..Len(returned) |->
               [input    |-> IF returned[i].op = "describe_image"
                             THEN "[image]" \o returned[i].input
                             ELSE returned[i].input,
                response |-> returned[i].response]]
    /\ (obs.op \in {"ask", "describe_image"} /\ obs.raised) => history = obs.prior
    /\ (obs.op \in {"ask", "describe_image"} /\ ~obs.done) => history = obs.prior

\* An ask and then a describe_image returned; a third call raised.
C6_Witness ==
    /\ Len(history) = 2
    /\ history[1].input = "sea level"
    /\ history[2].input = "[image]/tmp/a.png"
    /\ history[1].response # history[2].response

\* A call raised after another had returned.
C6_WitnessRaised ==
    /\ obs.op \in {"ask", "describe_image"} /\ obs.raised
    /\ Len(history) = 1

\* C7: reset empties history and leaves language, audience, the vision
\* flag and the provider instances as they were.
C7_ResetKeepsConfiguration ==
    [][obs'.op = "reset" =>
          /\ history' = <<>>
          /\ language' = language
          /\ audience' = audience
          /\ captioner' = captioner
          /\ simplifier' = simplifier
          /\ translator' = translator]_vars

\* A reset emptied a history of two entries, of an Arabic general-audience
\* session with vision on.
C7_Witness ==
    /\ obs.op = "reset" /\ Len(obs.prior) = 2 /\ history = <<>>
    /\ language = "ar" /\ audience = "general" /\ captioner # None

\* The languages translate works with for the call observed.
EffectiveSource == lower(OrStr(obs.source_lang, obs.before.source_lang))
EffectiveTarget == lower(OrStr(obs.target_lang, obs.before.target_lang))

\* C9: translate with source equal to target returns the text unchanged,
\* invokes no backend, and leaves the loaded pair and model as they were.
C9_IdentityTranslation ==
    (obs.op = "translate" /\ EffectiveSource = EffectiveTarget) =>
        /\ obs.out = obs.text
        /\ obs.calls = <<>>
        /\ ~obs.raised
        /\ translator = obs.before

\* An identity call on a translator holding a model of another pair.
C9_Witness ==
    /\ obs.op = "translate"
    /\ obs.source_lang = "AR" /\ obs.target_lang = ""
    /\ obs.before.model # None
    /\ obs.before.source_lang = "en" /\ obs.before.target_lang = "ar"
    /\ obs.out = obs.text

\* C10: with no local model and source different from target, translate
\* calls the remote service, and when that call fails in any way it
\* returns the text unchanged and does not raise.
C10_RemoteFallback ==
    (obs.op = "translate" /\ EffectiveSource # EffectiveTarget
        /\ obs.before.model = None) =>
        /\ Len(obs.calls) = 1
        /\ obs.calls[1].backend = "remote"
        /\ obs.calls[1].text = obs.text
        /\ obs.calls[1].source = EffectiveSource
        /\ obs.calls[1].target = EffectiveTarget
        /\ ~obs.raised
        /\ obs.remote # "translated" => obs.out = obs.text

\* The remote service answered with a body that is no JSON, and the text
\* came back unchanged.
C10_Witness ==
    /\ obs.op = "translate" /\ obs.before.model = None
    /\ obs.calls # <<>> /\ obs.calls[1].backend = "remote"
    /\ obs.remote = "bad_json"
    /\ obs.out = obs.text /\ ~obs.raised

\* The non-blank lines of the text simplified, stripped.
C11_Parts == SelectSeq([i \in 1..Len(obs.lines) |-> strip(obs.lines[i])], LAMBDA p : p # "")

\* The glossary entries whose term occurs in the text simplified, in
\* whichever case.
C11_Terms == SelectSeq(glossary, LAMBDA e : Contains(lower(obs.text), e[1]))

\* The analogy sentence of the audience.
C11_Analogy ==
    IF obs.audience = "child"
    THEN "- Imagine it like a big camera in space watching Earth to help us understand it."
    ELSE "- Analogy: spaceborne cameras monitor Earth much like weather stations monitor a city."

\* C11 as stated: the fallback's output is a definition bullet for each
\* glossary term that occurs in the input and for no other, then one
\* bullet per non-blank input line, a line longer than 160 characters cut
\* to its first 160, then as last line the analogy of the audience.
C11_FallbackOutput ==
    (obs.op = "simplify" /\ simplifier.pipe = None) =>
        LET out == split(obs.out, "\n")
            n == Len(C11_Terms)
            m == Len(C11_Parts)
        IN  /\ Len(out) = n + m + 1
            /\ \A i \in 1..n :
                   out[i] = "- " \o C11_Terms[i][1] \o ": " \o C11_Terms[i][2]
            /\ \A j \in 1..m :
                   out[n + j] = "- " \o SubSeq(C11_Parts[j], 1, Min(160, Len(C11_Parts[j])))
            /\ out[Len(out)] = C11_Analogy

\* C11 as amended: the output opens with the fixed bullet "- We explain
\* this topic in simple words.", the terms are looked for in the
\* lower-cased input, the lines are stripped, and a line longer than 160
\* characters is cut to its first 160 followed by "...".
C11_FallbackOutputWithIntro ==
    (obs.op = "simplify" /\ simplifier.pipe = None) =>
        LET out == split(obs.out, "\n")
            n == Len(C11_Terms)
            m == Len(C11_Parts)
        IN  /\ Len(out) = 1 + n + m + 1
            /\ out[1] = "- We explain this topic in simple words."
            /\ \A i \in 1..n :
                   out[1 + i] = "- " \o C11_Terms[i][1] \o ": " \o C11_Terms[i][2]
            /\ \A j \in 1..m :
                   out[1 + n + j] =
                       IF Len(C11_Parts[j]) > 160
                       THEN "- " \o SubSeq(C11_Parts[j], 1, 160) \o "..."
                       ELSE "- " \o C11_Parts[j]
            /\ out[Len(out)] = C11_Analogy

\* The fallback simplified, for a general audience, a text of a line
\* longer than 160 characters naming a term past the cut and a line
\* naming two terms in upper case.
C11_Witness ==
    /\ obs.op = "simplify" /\ simplifier.pipe = None
    /\ obs.audience = "general"
    /\ obs.lines = <<Line160 \o "1 albedo", " Satellite ORBIT ">>
    /\ Len(split(obs.out, "\n")) = 7

\* C12: once _ensure_bot has run with the requested settings, the
\* session's orchestrator is the one built from exactly those settings:
\* language, audience, vision flag and simplifier model.
C12_BotBuiltFromRequestedSettings ==
    obs.op = "ensure_bot" =>
        /\ language = obs.lang
        /\ audience = obs.audience
        /\ (captioner # None) = obs.use_vision
        /\ translator = Translator__init__("en", obs.lang, transformers_available, TRUE)
        /\ simplifier = Simplifier__init__(obs.model_name, transformers_available, TRUE)

\* C13: within one ask or describe_image call no query string is sent to
\* search more than once.
C13_NoQuerySearchedTwice ==
    obs.op \in {"ask", "describe_image"} =>
        \A i, j \in 1..Len(obs.searched) :
            i # j => obs.searched[i] # obs.searched[j]

\* C14: when the caption holds 'hub' as a word of its own, 'hubble' and
\* 'hubble telescope' come first in the candidate list, so they are
\* searched before the raw caption.
C14_HubbleSearchedFirst ==
    (obs.op = "describe_image" /\ pc \in {"img_search", "img_respond"}
        /\ Contains(" " \o lower(call.caption) \o " ", " hub ")) =>
        \A i \in 1..Min(3, Len(obs.searched)) :
            obs.searched[i] = <<"hubble", "hubble telescope", call.caption>>[i]

\* C15: when every candidate search of describe_image is empty or fails,
\* the fallback narrative given to the simplifier is the solar-mission
\* text exactly when the caption mentions sun, solar, corona, sunspot or
\* flare, and the Earth-observation text otherwise.
C15_FallbackFollowsSolarTest ==
    (CallReturned /\ obs.op = "describe_image" /\ obs.searched # <<>> /\ ~obs.found) =>
        LET caption == obs.searched[1]
            solar == \E k \in {"sun", "solar", "corona", "sunspot", "flare"} :
                         Contains(lower(caption), k)
            text == obs.simplified[1].text
        IN  /\ solar <=> Contains(text, "NASA studies the Sun using space missions")
            /\ ~solar <=> Contains(text, "Satellites observe Earth to measure clouds")

\* The translation model of a language pair.
C16_ModelOf(src, tgt) == "Helsinki-NLP/opus-mt-" \o src \o "-" \o tgt

\* C16: a translate call with source other than target that the local
\* model serves is served by the model of the requested pair, loaded anew
\* when the pair loaded before was another one, and the recorded pair
\* names the pair of the loaded model.
C16_ServedByModelOfRequestedPair ==
    (obs.op = "translate" /\ EffectiveSource # EffectiveTarget
        /\ \E i \in 1..Len(obs.calls) : obs.calls[i].backend = "marian") =>
        LET served == obs.calls[Len(obs.calls)]
            wanted == C16_ModelOf(EffectiveSource, EffectiveTarget)
            differs == <<EffectiveSource, EffectiveTarget>>
                           # <<obs.before.source_lang, obs.before.target_lang>>
        IN  /\ served.model = wanted
            /\ differs => /\ Len(obs.calls) = 2
                          /\ obs.calls[1].backend = "from_pretrained"
                          /\ obs.calls[1].model = wanted
            /\ translator.model = Some(C16_ModelOf(translator.source_lang,
                                                   translator.target_lang))
            /\ <<translator.source_lang, translator.target_lang>>
                   = <<EffectiveSource, EffectiveTarget>>

====
